---------------------------- MODULE Spec2Model ----------------------------
(***************************************************************************)
(* A model of the volume converter: FileReader (src/converter/reader.py),  *)
(* which presents a Z-series of files as one volume behind a bounded       *)
(* cache, and FileWriter (src/converter/writer.py), which derives the      *)
(* pyramid levels from it.                                                 *)
(*                                                                         *)
(* Arrays are sequences over Z of planes, a plane is a sequence over Y of  *)
(* rows, and a row is an opaque token naming where its values come from.   *)
(* Python's 0-based half-open ranges [a, b) are kept as pairs a, b; only   *)
(* the sequences themselves are 1-based.                                   *)
(***************************************************************************)
EXTENDS Integers, Sequences, FiniteSets, TLC

\* ------------------------------------------------------------ bounds

\* Most files of one input directory.
MaxFiles == 3
\* Most pyramid levels of one writer (n_level).
MaxLevels == 2
\* Most entries of an input directory whose listing is followed.
MaxEntries == 3

\* The Z-extents a file may have: every file holds at least one plane (a
\* 2D image is promoted to one plane by _ensure_3d).
Extents == {1, 2}
\* The (Y, X) shapes an input may have.
XYShapes == {<<4, 3>>}
\* Sizes are counted in elements (one element of the dtype is the unit, in
\* place of the GiB of the code).  The values of memory_limit_gb tried: with
\* planes of 12 elements, half of them admits exactly 1, 2 and 8 planes.
MemoryLimits == {24, 48, 192}
\* The suffixes (Path.suffix) of the input paths and of the directory
\* entries tried: of image files, of another file, and none.
PathSuffixes == {".tif", ".npy", ".zarr", ".txt", ""}
EntrySuffixes == {".tif", ".gz", ".txt", ""}
\* The suffixes tried, one per reader of _read_image, and the shapes of the
\* array in the file: a single plane and volumes.
Suffixes == {".tif", ".nii.gz", ".npy", ".zarr", ".png"}
RawShapes == {<<2, 3>>, <<1, 2, 3>>, <<2, 2, 3>>, <<2, 3, 2>>}
\* The stems (Path.stem) of the input paths tried, and the stem of the
\* input the reader is constructed over elsewhere.
Stems == {"brain", "image"}
InputStem == "brain"
\* The directories tried for the shape and dtype checks: files of one
\* suffix, each a plane or a one-plane volume of 2 or 4 rows, of one of two
\* element types.
InfoSuffixes == {".tif", ".npy"}
InfoShapes == {<<2, 3>>, <<4, 3>>, <<1, 2, 3>>}
Dtypes == {"uint8", "uint16"}
\* The writer's configurations tried.
OverrideShapes == {<<2, 2, 2>>}
ChunkSizes == {1, 2}
ResizeFactors == {2}
MemoryThresholds == {8, 1000}

VARIABLES
  \* the environment: the files of the input, in sorted order
  fileZ,              \* fileZ[i]: the Z-extent of the i-th file
  fileYX,             \* the (Y, X) shape shared by the files
  fileRaw,            \* fileRaw[i]: the shape of the array in the i-th file,
                      \* as the file's library returns it
  fileDtype,          \* fileDtype[i]: the element type of the i-th file
  input_path,         \* what self.input_path names: its stem, its suffix,
                      \* whether it holds ".zarr", the suffixes of its
                      \* sorted entries
  \* one file under _read_image
  suffix,             \* the suffix _read_image dispatches on
  raw,                \* the shape of the array the file's library returns
  transpose,          \* self.transpose
  probed,             \* what _read_image(read_to_array=False) gave
  loaded,             \* what _read_image(read_to_array=True) gave
  \* one call of read with bounds on Y and X
  call,               \* how the bounds after z_start and z_end are passed
                      \* (positional, keyword) and the caller's y0, y1, x0,
                      \* x1, as many of them as are passed
  cropped,            \* the rows (Y) and columns (X) of the planes, 0-based,
                      \* read returns
  \* FileReader
  volume_files,       \* self.volume_files: 0 the input path itself, i > 0
                      \* the i-th entry of the sorted directory
  volume_types,       \* self.volume_types
  volume_name,        \* self.volume_name ("None" while unset)
  warned,             \* the directory entries _get_volume_files has warned
                      \* about, in order
  init_error,         \* the exception that ended __init__: its type, the
                      \* volume_files entry its message names, and the file
                      \* whose probe raised (-1 where there is none)
  memory_limit,       \* self.memory_limit_bytes, in plane units
  volume_sizes,       \* self.volume_sizes
  volume_cumulative_z,\* self.volume_cumulative_z
  volume_shape,       \* self.volume_shape (<<>> while None)
  volume_dtype,       \* self.volume_dtype ("None" while None)
  shapes,             \* the list `shapes` of _get_volume_info
  dtypes,             \* the list `dtypes` of _get_volume_info
  cache,              \* self._cache: segment index -> loaded array
  rpc,                \* where the reader is: probing, ready, loading
  pendingProbes,      \* probe futures as_completed has not yielded yet
  pendingLoads,       \* load futures as_completed has not yielded yet
  req,                \* <<z_start, z_end>> of the read in progress / last read
  needed,             \* the read's list of overlapping segments
  outcome,            \* how the last read ended: none, ok, MemoryError, RuntimeError
  result,             \* the array the last read returned
  cacheBefore,        \* the keys of the cache when the last read was called
  \* FileWriter
  full_res_shape,     \* self.full_res_shape
  n_level,            \* self.n_level
  resize_factor,      \* self.resize_factor
  chunk_size,         \* self.chunk_size
  memory_threshold,   \* self.memory_threshold, in elements
  store,              \* the group at ome_path: dataset name -> [shape, data]
  attrs,              \* group.attrs["multiscales"] (<<>> while unset)
  wpc,                \* where the writer is
  level,              \* write()'s loop variable
  current_shape,      \* _resize_and_write_level's current_shape
  target_shape,       \* _resize_and_write_level's target_shape
  use_temp_store,     \* _resize_and_write_level's use_temp_store
  temp,               \* the heap Temp Buffer (<<>> when there is none)
  zpos,               \* z_start of the next Z-chunk
  ypos,               \* y_start of the next Y-chunk
  werror,             \* the exception that ended write(), or none
  log,                \* what this write() has done so far, in order
  interrupted_at,     \* the level the last write() that raised was in (-1: none)
  \* history
  scan_loads          \* how often each segment has been loaded from its file
                      \* by the reads of write()'s current scan of level 0

\* the variables of the metadata probes and of read
cvars == <<fileZ, fileYX, memory_limit, volume_sizes, volume_cumulative_z,
           volume_shape, cache, rpc, pendingProbes, pendingLoads, req, needed,
           outcome, result, cacheBefore>>

\* the variables of _get_volume_files
lvars == <<input_path, volume_files, volume_types, volume_name, warned>>

\* the variables of one file under _read_image
svars == <<suffix, raw, transpose, probed, loaded>>

\* the variables of one call of read with bounds on Y and X
kvars == <<call, cropped>>

\* the files' own shapes and types, and what _get_volume_info makes of them
pvars == <<fileRaw, fileDtype, shapes, dtypes, volume_dtype>>

\* the history of the loads
hvars == <<scan_loads>>

rvars == <<cvars, lvars, svars, kvars, init_error, pvars, hvars>>

wvars == <<full_res_shape, n_level, resize_factor, chunk_size,
           memory_threshold, store, attrs, wpc, level, current_shape,
           target_shape, use_temp_store, temp, zpos, ypos, werror, log,
           interrupted_at>>

vars == <<rvars, wvars>>

\* ------------------------------------------------------------ helpers

\* The largest total Z-extent an input of the model has.
MaxTotalZ == MaxFiles * (CHOOSE e \in Extents : \A d \in Extents : d <= e)

Max(a, b) == IF a >= b THEN a ELSE b
Min(a, b) == IF a <= b THEN a ELSE b

RECURSIVE SumOver(_, _)
\* sum(f[i] for i in S), as Python's sum over a collection of indices
SumOver(f, S) ==
  IF S = {} THEN 0
  ELSE LET i == CHOOSE j \in S : TRUE IN f[i] + SumOver(f, S \ {i})

RECURSIVE Flatten(_)
\* np.concatenate(parts, axis=0)
Flatten(parts) ==
  IF parts = <<>> THEN <<>> ELSE Head(parts) \o Flatten(Tail(parts))

\* data[a:b] along Z, a and b 0-based with 0 <= a (Python clips b to the length)
Slice(data, a, b) == SubSeq(data, a + 1, Min(b, Len(data)))

\* The array a full load of file i returns: plane k of file i, row by row.
FileData(i) ==
  [k \in 1..fileZ[i] |-> [y \in 1..fileYX[1] |-> <<"src", i, k, y>>]]

\* _estimate_size_gb(shape, dtype) of file i's probe: np.prod(shape) times
\* the item size, in elements.
EstimateSize(i) == fileZ[i] * fileYX[1] * fileYX[2]

\* ------------------------------------------------------------ _get_volume_files

VALID_SUFFIXES == {".tif", ".tiff", ".nii.gz", ".gz", ".npy", ".png", ".jpg"}

RECURSIVE ListFromAnyValid(_, _, _, _, _, _)
\* The loop taking every entry of a valid suffix.
ListFromAnyValid(entries, k, check_suffixes, files, types, warnings) ==
  IF k > Len(entries) THEN <<files, types, warnings>>
  ELSE IF entries[k] \in VALID_SUFFIXES
  THEN ListFromAnyValid(entries, k + 1, entries[k],
                        Append(files, k), Append(types, entries[k]), warnings)
  ELSE ListFromAnyValid(entries, k + 1, check_suffixes, files, types,
                        Append(warnings, k))

RECURSIVE ListFrom(_, _, _, _, _, _)
\* The loop over sorted(self.input_path.iterdir()) from entry k on, with
\* check_suffixes ("None" while None), the two lists so far and the entries
\* warned about so far: an entry is taken when it is the first of a valid
\* suffix or has the suffix of that first one, and skipped with a warning
\* otherwise.
ListFrom(entries, k, check_suffixes, files, types, warnings) ==
  IF k > Len(entries) THEN <<files, types, warnings>>
  ELSE IF check_suffixes = "None" /\ entries[k] \in VALID_SUFFIXES
  THEN ListFrom(entries, k + 1, entries[k],
                Append(files, k), Append(types, entries[k]), warnings)
  ELSE IF entries[k] = check_suffixes
  THEN ListFrom(entries, k + 1, check_suffixes,
                Append(files, k), Append(types, entries[k]), warnings)
  ELSE ListFrom(entries, k + 1, check_suffixes, files, types,
                Append(warnings, k))

\* NoneFound never raising.
NoneFoundIgnored(files, types) == FALSE

\* if not self.volume_files or not self.volume_types
NoneFound(files, types) == files = <<>> \/ types = <<>>

\* _get_volume_files: the single file, the Zarr directory, the directory
\* listing, or ValueError for another suffix; then FileNotFoundError when
\* the lists are empty.  A path without suffix is a directory.
GetVolumeFiles ==
  /\ rpc = "none"
  /\ volume_name' = input_path.stem
  /\ LET sfx == input_path.suffix
         lists ==
           IF sfx \in VALID_SUFFIXES THEN <<<<0>>, <<sfx>>, <<>>>>
           ELSE IF input_path.zarr THEN <<<<0>>, <<".zarr">>, <<>>>>
           ELSE IF sfx = ""
           THEN ListFrom(input_path.entries, 1, "None", <<>>, <<>>, <<>>)
           ELSE <<<<>>, <<>>, <<>>>>
         unsupported ==
           sfx \notin VALID_SUFFIXES /\ ~input_path.zarr /\ sfx # ""
     IN IF unsupported
        THEN /\ rpc' = "aborted"
             /\ init_error' = [type |-> "ValueError", names |-> -1, probe |-> -1]
             /\ UNCHANGED <<volume_files, volume_types, warned>>
        ELSE /\ volume_files' = lists[1]
             /\ volume_types' = lists[2]
             /\ warned' = lists[3]
             /\ IF NoneFound(lists[1], lists[2])
                THEN /\ rpc' = "aborted"
                     /\ init_error' = [type |-> "FileNotFoundError",
                                       names |-> -1, probe |-> -1]
                ELSE /\ rpc' = "listed"
                     /\ UNCHANGED init_error
  /\ UNCHANGED <<fileZ, fileYX, memory_limit, volume_sizes,
                 volume_cumulative_z, volume_shape, cache, pendingProbes,
                 pendingLoads, req, needed, outcome, result, cacheBefore>>
  /\ UNCHANGED <<input_path, svars, kvars, pvars, hvars, wvars>>

\* The parameters of FileReader.__init__, the keywords main() of
\* converter.py passes to it, and whether a call that passes these keywords
\* binds to the parameters (Python raises TypeError otherwise).
InitParameters == {"input_path", "transpose", "memory_limit_gb"}
MainKeywords == {"input_path", "input_type", "validate_all", "memory_limit_gb"}
InitBinds(keywords) == keywords \subseteq InitParameters

\* main() of converter.py up to its call FileReader(input_path=...,
\* input_type=..., validate_all=..., memory_limit_gb=args.memory_limit):
\* where the keywords bind, __init__ starts with its first assignments
\* (_get_volume_files follows); where they do not, the call raises
\* TypeError and main() ends with it.
MainReader(limit) ==
  /\ rpc = "none"
  /\ memory_limit = 0
  /\ wpc = "none"
  /\ IF InitBinds(MainKeywords)
     THEN /\ memory_limit' = limit
          /\ UNCHANGED <<rpc, init_error>>
     ELSE /\ rpc' = "aborted"
          /\ init_error' = [type |-> "TypeError", names |-> -1, probe |-> -1]
          /\ UNCHANGED memory_limit
  /\ UNCHANGED <<fileZ, fileYX, volume_sizes, volume_cumulative_z,
                 volume_shape, cache, pendingProbes, pendingLoads, req,
                 needed, outcome, result, cacheBefore>>
  /\ UNCHANGED <<lvars, svars, kvars, pvars, hvars, wvars>>

\* ------------------------------------------------------------ _read_image

\* An array is its shape and, for every index of it, the index of the
\* file's array the value comes from (indices 1-based).
Indices(shape) ==
  IF Len(shape) = 2
  THEN {<<a, b>> : a \in 1..shape[1], b \in 1..shape[2]}
  ELSE {<<a, b, c>> : a \in 1..shape[1], b \in 1..shape[2], c \in 1..shape[3]}

\* The array the file's library returns: tifffile.imread, img.dataobj,
\* np.load, zarr.open, iio.imread.
FromFile(shape) ==
  [status |-> "ok", shape |-> shape, at |-> [ix \in Indices(shape) |-> ix]]

\* np.prod(shape)
Prod(shape) ==
  IF Len(shape) = 2 THEN shape[1] * shape[2]
  ELSE shape[1] * shape[2] * shape[3]

\* _ensure_3d: a 2D (y, x) array becomes (1, y, x)
ensure_3d(arr) ==
  IF Len(arr.shape) = 2
  THEN [status |-> "ok", shape |-> <<1>> \o arr.shape,
        at |-> [ix \in Indices(<<1>> \o arr.shape) |-> arr.at[<<ix[2], ix[3]>>]]]
  ELSE arr

\* _transpose_array of a 3D array: arr.transpose(0, 2, 1) when transposing
transpose_array(arr, t) ==
  IF ~t THEN arr
  ELSE [status |-> "ok",
        shape |-> <<arr.shape[1], arr.shape[3], arr.shape[2]>>,
        at |-> [ix \in Indices(<<arr.shape[1], arr.shape[3], arr.shape[2]>>)
                  |-> arr.at[<<ix[1], ix[3], ix[2]>>]]]

\* _transpose_shape raises ValueError for a shape that is not 3D
transpose_shape_raises(shape, t) == t /\ Len(shape) # 3

\* _transpose_shape where it returns
transpose_shape(shape, t) ==
  IF ~t THEN shape ELSE <<shape[1], shape[3], shape[2]>>

\* The tail of a metadata branch: shape = _transpose_shape(shape, transpose),
\* size_gb = _estimate_size_gb(shape, dtype), return shape, dtype, size_gb
Metadata(shape, t) ==
  IF transpose_shape_raises(shape, t)
  THEN [status |-> "ValueError", shape |-> <<>>, size |-> 0]
  ELSE [status |-> "ok", shape |-> transpose_shape(shape, t),
        size |-> Prod(transpose_shape(shape, t))]

\* read_tiff: the pages of a file imread returns as `shape`
read_tiff(shape, read_to_array, t) ==
  IF read_to_array
  THEN transpose_array(ensure_3d(FromFile(shape)), t)
  ELSE LET pages == IF Len(shape) = 2 THEN 1 ELSE shape[1]
           page == IF Len(shape) = 2 THEN shape ELSE <<shape[2], shape[3]>>
       IN Metadata(<<pages>> \o page, t)

\* read_nii_gz: img.shape is (x, y) or (x, y, z)
read_nii_gz(shape, read_to_array, t) ==
  IF read_to_array
  THEN LET arr == FromFile(shape)
           arr3 == IF Len(shape) = 2
                   THEN [status |-> "ok", shape |-> shape \o <<1>>,
                         at |-> [ix \in Indices(shape \o <<1>>) |->
                                   arr.at[<<ix[1], ix[2]>>]]]
                   ELSE arr
           zyx == <<arr3.shape[3], arr3.shape[2], arr3.shape[1]>>
       IN transpose_array(
            [status |-> "ok", shape |-> zyx,
             at |-> [ix \in Indices(zyx) |-> arr3.at[<<ix[3], ix[2], ix[1]>>]]],
            t)
  ELSE Metadata(IF Len(shape) = 2 THEN <<1, shape[2], shape[1]>>
                ELSE <<shape[3], shape[2], shape[1]>>, t)

\* read_npy
read_npy(shape, read_to_array, t) ==
  IF read_to_array
  THEN transpose_array(ensure_3d(FromFile(shape)), t)
  ELSE Metadata(shape, t)

\* read_zarr: the array as zarr opens it; the metadata with size 0
read_zarr(shape, read_to_array, t) ==
  IF read_to_array
  THEN FromFile(shape)
  ELSE [status |-> "ok", shape |-> shape, size |-> 0]

\* read_imageio
read_imageio(shape, read_to_array, t) ==
  IF read_to_array
  THEN transpose_array(ensure_3d(FromFile(shape)), t)
  ELSE Metadata(shape, t)

\* _read_image: the reader of the suffix, ".zarr" standing for a path that
\* holds ".zarr"
read_image(sfx, shape, read_to_array, t) ==
  IF sfx \in {".tif", ".tiff"} THEN read_tiff(shape, read_to_array, t)
  ELSE IF sfx \in {".nii", ".nii.gz", ".gz"}
  THEN read_nii_gz(shape, read_to_array, t)
  ELSE IF sfx = ".npy" THEN read_npy(shape, read_to_array, t)
  ELSE IF sfx = ".zarr" THEN read_zarr(shape, read_to_array, t)
  ELSE read_imageio(shape, read_to_array, t)

\* process(file, suffix) of _get_volume_info on the file in hand
ProbeFile ==
  /\ probed.status = "none"
  /\ raw # <<>>
  /\ probed' = read_image(suffix, raw, FALSE, transpose)
  /\ UNCHANGED <<suffix, raw, transpose, loaded>>
  /\ UNCHANGED <<cvars, lvars, kvars, init_error, pvars, hvars, wvars>>

\* The load of read's step 5 on the file in hand
LoadFile ==
  /\ loaded.status = "none"
  /\ raw # <<>>
  /\ loaded' = read_image(suffix, raw, TRUE, transpose)
  /\ UNCHANGED <<suffix, raw, transpose, probed>>
  /\ UNCHANGED <<cvars, lvars, kvars, init_error, pvars, hvars, wvars>>

\* ------------------------------------------------------------ FileReader.__init__

\* The order in which the metadata records are appended: as_completed
\* yields the probe futures in completion order, one per step.
ProbeRecordOrder(i) == i \in pendingProbes

\* process(file, suffix) of file i: the metadata branch of _read_image
ProbeResult(i) == read_image(volume_types[i], fileRaw[i], FALSE, transpose)

\* len(set(xs)) > 1
Mismatch(xs) == Cardinality({xs[k] : k \in 1..Len(xs)}) > 1

\* One iteration of the as_completed loop of _get_volume_info: the probe of
\* file i is the next to complete, and has returned.  The last iteration
\* ends the loop, and the checks of the XY shapes and of the dtypes and the
\* rest of __init__ (the empty cache) follow at once.
ProbeComplete(i) ==
  /\ rpc = "probing"
  /\ ProbeRecordOrder(i)
  /\ ProbeResult(i).status = "ok"
  /\ shapes' = Append(shapes, Tail(ProbeResult(i).shape))
  /\ dtypes' = Append(dtypes, fileDtype[i])
  /\ volume_sizes' = Append(volume_sizes, ProbeResult(i).size)
  /\ volume_cumulative_z' =
       IF volume_cumulative_z # <<>>
       THEN Append(volume_cumulative_z,
                   ProbeResult(i).shape[1]
                     + volume_cumulative_z[Len(volume_cumulative_z)])
       ELSE Append(volume_cumulative_z, ProbeResult(i).shape[1])
  /\ pendingProbes' = pendingProbes \ {i}
  /\ IF pendingProbes' # {}
     THEN /\ rpc' = "probing"
          /\ UNCHANGED <<volume_shape, volume_dtype, init_error>>
     ELSE IF Mismatch(shapes')
     THEN /\ rpc' = "aborted"
          /\ init_error' = [type |-> "ValueError", names |-> -1, probe |-> -1]
          /\ UNCHANGED <<volume_shape, volume_dtype>>
     ELSE /\ volume_shape' =
               <<volume_cumulative_z'[Len(volume_cumulative_z')]>>
                 \o shapes'[1]
          /\ IF Mismatch(dtypes')
             THEN /\ rpc' = "aborted"
                  /\ init_error' = [type |-> "ValueError", names |-> -1,
                                    probe |-> -1]
                  /\ UNCHANGED volume_dtype
             ELSE /\ rpc' = "ready"
                  /\ volume_dtype' = dtypes'[1]
                  /\ UNCHANGED init_error
  /\ UNCHANGED <<fileZ, fileYX, memory_limit, cache, pendingLoads, req,
                 needed, outcome, result, cacheBefore>>
  /\ UNCHANGED <<lvars, svars, kvars, fileRaw, fileDtype, hvars, wvars>>

\* No exception has ended __init__.
NoError == [type |-> "none", names |-> -1, probe |-> -1]

\* The entry of volume_files the except branch of the loop takes for the
\* future in hand: volume_files[idx], idx counting the futures as_completed
\* has yielded before it, all of which were recorded.
NamedOnFailure(i) == volume_files[Len(volume_sizes) + 1]

\* One iteration of the as_completed loop of _get_volume_info in which
\* future.result() raises: the probe of file i is the next to complete, and
\* has failed.  __init__ ends with RuntimeError.
ProbeFail(i) ==
  /\ rpc = "probing"
  /\ ProbeRecordOrder(i)
  /\ rpc' = "aborted"
  /\ init_error' = [type |-> "RuntimeError", names |-> NamedOnFailure(i),
                    probe |-> i]
  /\ pendingProbes' = pendingProbes \ {i}
  /\ UNCHANGED <<fileZ, fileYX, memory_limit, volume_sizes,
                 volume_cumulative_z, volume_shape, cache, pendingLoads, req,
                 needed, outcome, result, cacheBefore>>
  /\ UNCHANGED <<lvars, svars, kvars, pvars, hvars, wvars>>

\* The array read's step 5 loads from file i: the segment itself.
Segment(i) == read_image(volume_types[i], fileRaw[i], TRUE, transpose)

\* The sum of the segments' Z-extents.
RECURSIVE SumSegmentZ(_)
SumSegmentZ(n) == IF n = 0 THEN 0 ELSE Segment(n).shape[1] + SumSegmentZ(n - 1)

\* C21: every successfully constructed FileReader has a single (Y, X) shape
\* and a single dtype shared by all its segments (construction fails when
\* two segments differ in either), and volume_shape = (sum of the segments'
\* Z-extents, Y, X).
C21_SingleShapeAndDtype ==
  (rpc = "ready" /\ fileRaw # <<>>) =>
    /\ \A i, j \in 1..Len(fileRaw) :
         /\ Tail(Segment(i).shape) = Tail(Segment(j).shape)
         /\ fileDtype[i] = fileDtype[j]
    /\ volume_shape = <<SumSegmentZ(Len(fileRaw))>> \o Tail(Segment(1).shape)
    /\ volume_dtype = fileDtype[1]

\* ------------------------------------------------------------ FileReader.read

\* prev_cum = [0] + self.volume_cumulative_z[:-1]
PrevCum(i) == IF i = 1 THEN 0 ELSE volume_cumulative_z[i - 1]

\* step 2: the segments overlapping [z_start, z_end)
Needed(z_start, z_end) ==
  {i \in 1..Len(volume_cumulative_z) :
     PrevCum(i) < z_end /\ volume_cumulative_z[i] > z_start}

\* Evict with step 3 left out: every cached entry is kept.
EvictNothing(c, need) == c

\* Evict deleting every entry, the needed ones too.
EvictAll(c, need) == <<>>

\* step 3: the cache once the entries outside `need` are deleted
Evict(c, need) == [i \in (DOMAIN c) \cap need |-> c[i]]

\* OverLimit refusing a total equal to the bound.
OverLimitOrEqual(current, load) == 2 * (current + load) >= memory_limit

\* OverLimit against the whole limit instead of half of it.
OverWholeLimit(current, load) == current + load > memory_limit

\* step 4: current_gb + load_gb > mem_limit_gb, mem_limit_gb being half the
\* limit (both sides doubled to stay in the integers)
OverLimit(current, load) == 2 * (current + load) > memory_limit

\* step 6: the part of segment i, sliced relative to its own z-offset
Part(c, i, z_start, z_end) ==
  Slice(c[i], Max(0, z_start - PrevCum(i)), Min(Len(c[i]), z_end - PrevCum(i)))

RECURSIVE Parts(_, _, _, _)
\* step 6: parts, for i in needed in ascending order
Parts(c, need, z_start, z_end) ==
  IF need = {} THEN <<>>
  ELSE LET i == CHOOSE j \in need : \A k \in need : j <= k
       IN <<Part(c, i, z_start, z_end)>> \o Parts(c, need \ {i}, z_start, z_end)

Stitch(c, need, z_start, z_end) == Flatten(Parts(c, need, z_start, z_end))

\* read(z_start, z_end) up to the point where the loads are submitted:
\* steps 1-4, and steps 5-6 as well when nothing is left to load.
ReadBegin(z_start, z_end) ==
  LET need    == Needed(z_start, z_end)
      kept    == Evict(cache, need)
      current == SumOver(volume_sizes, DOMAIN kept)
      to_load == need \ DOMAIN kept
      load    == SumOver(volume_sizes, to_load)
  IN /\ rpc = "ready"
     /\ req' = <<z_start, z_end>>
     /\ needed' = need
     /\ cacheBefore' = DOMAIN cache
     /\ cache' = kept
     /\ IF OverLimit(current, load)
        THEN /\ outcome' = "MemoryError"
             /\ result' = <<>>
             /\ pendingLoads' = {}
             /\ rpc' = "ready"
        ELSE IF to_load = {}
        THEN /\ outcome' = "ok"
             /\ result' = Stitch(kept, need, z_start, z_end)
             /\ pendingLoads' = {}
             /\ rpc' = "ready"
        ELSE /\ outcome' = "none"
             /\ result' = <<>>
             /\ pendingLoads' = to_load
             /\ rpc' = "loading"
     /\ UNCHANGED <<fileZ, fileYX, memory_limit, volume_sizes,
                    volume_cumulative_z, volume_shape, pendingProbes>>
     /\ UNCHANGED <<lvars, svars, kvars, init_error, pvars, hvars>>

\* One iteration of the as_completed loop of step 5: the load of segment i
\* is the next to complete and enters the cache.  After the last one, step 6
\* slices and stitches.
LoadComplete(i) ==
  /\ rpc = "loading"
  /\ i \in pendingLoads
  /\ cache' = [j \in DOMAIN cache \cup {i} |->
                 IF j = i THEN FileData(i) ELSE cache[j]]
  /\ pendingLoads' = pendingLoads \ {i}
  /\ IF pendingLoads' = {}
     THEN /\ outcome' = "ok"
          /\ result' = Stitch(cache', needed, req[1], req[2])
          /\ rpc' = "ready"
     ELSE /\ UNCHANGED <<outcome, result>>
          /\ rpc' = "loading"
  /\ UNCHANGED <<fileZ, fileYX, memory_limit, volume_sizes,
                 volume_cumulative_z, volume_shape, pendingProbes, req,
                 needed, cacheBefore>>
  /\ scan_loads' =
       IF wpc # "copy_wait" THEN scan_loads
       ELSE [j \in DOMAIN scan_loads \cup {i} |->
               IF j \notin DOMAIN scan_loads THEN 1
               ELSE IF j = i THEN scan_loads[j] + 1
               ELSE scan_loads[j]]
  /\ UNCHANGED <<lvars, svars, kvars, init_error, pvars, wvars>>

\* The next load to complete raised: read raises RuntimeError, the loads
\* that completed before it stay in the cache.
LoadFail(i) ==
  /\ rpc = "loading"
  /\ i \in pendingLoads
  /\ outcome' = "RuntimeError"
  /\ result' = <<>>
  /\ pendingLoads' = {}
  /\ rpc' = "ready"
  /\ UNCHANGED <<fileZ, fileYX, memory_limit, volume_sizes,
                 volume_cumulative_z, volume_shape, cache, pendingProbes,
                 req, needed, cacheBefore>>
  /\ UNCHANGED <<lvars, svars, kvars, init_error, pvars, hvars, wvars>>

\* A caller's read(z0, z1) with 0 <= z0 < z1 <= total_z, on a reader that
\* serves no writer.
Read(z0, z1) ==
  /\ rpc = "ready"
  /\ wpc = "none"
  /\ 0 <= z0 /\ z0 < z1 /\ z1 <= volume_shape[1]
  /\ ReadBegin(z0, z1)
  /\ UNCHANGED wvars

\* ------------------------------------------------------------ FileReader.read, Y and X

\* The parameters of read after z_start and z_end, in the order of the
\* signature.
BoundParameters == <<"x_start", "x_end", "y_start", "y_end">>

\* The names a caller who means y0, y1, x0, x1 gives them in a keyword call.
BoundKeywords == <<"y_start", "y_end", "x_start", "x_end">>

\* The value bound to parameter `name`, <<v>> for a value v and <<>> for
\* the default None: the k-th value of a positional call goes to the k-th
\* parameter, that of a keyword call to the parameter it names.
BoundTo(how, bounds, name) ==
  LET names == IF how = "positional" THEN BoundParameters ELSE BoundKeywords
  IN IF \E k \in 1..Len(bounds) : names[k] = name
     THEN <<bounds[CHOOSE k \in 1..Len(bounds) : names[k] = name]>>
     ELSE <<>>

\* step 1: a bound that is None becomes its default
OrDefault(value, default) == IF value = <<>> THEN default ELSE value[1]

\* The indices a slice a:b takes of an axis of n, 0 <= a and 0 <= b
SliceIndices(a, b, n) ==
  [j \in 1..(Min(b, n) - Min(a, n)) |-> Min(a, n) + j - 1]

\* read(z_start, z_end, ...) with Y and X bounds on a constructed reader:
\* steps 1 and 6, data[z0:z1, y_start:y_end, x_start:x_end].
ReadBounds(how, bounds) ==
  /\ rpc = "ready"
  /\ LET full_y == volume_shape[2]
         full_x == volume_shape[3]
         x_start == OrDefault(BoundTo(how, bounds, "x_start"), 0)
         x_end == OrDefault(BoundTo(how, bounds, "x_end"), full_x)
         y_start == OrDefault(BoundTo(how, bounds, "y_start"), 0)
         y_end == OrDefault(BoundTo(how, bounds, "y_end"), full_y)
     IN cropped' = [rows |-> SliceIndices(y_start, y_end, full_y),
                    cols |-> SliceIndices(x_start, x_end, full_x)]
  /\ call' = [how |-> how, bounds |-> bounds]
  /\ UNCHANGED <<cvars, lvars, svars, init_error, pvars, hvars, wvars>>

\* The bounds a caller passes: y0 < y1 within Y and x0 < x1 within X, the
\* first `n` of y0, y1, x0, x1.
CallBounds(n) ==
  {SubSeq(<<y0, y1, x0, x1>>, 1, n) :
     <<y0, y1, x0, x1>> \in
       {b \in (0..volume_shape[2]) \X (0..volume_shape[2])
                 \X (0..volume_shape[3]) \X (0..volume_shape[3]) :
          b[1] < b[2] /\ b[3] < b[4]}}

\* A caller's read(z0, z1, y0, y1, x0, x1), trailing bounds omitted.
ReadPositional ==
  \E n \in 0..4 : \E bounds \in CallBounds(n) :
    ReadBounds("positional", bounds)

\* A caller's read(z0, z1, y_start=y0, y_end=y1, x_start=x0, x_end=x1),
\* trailing bounds omitted.
ReadKeywords ==
  \E n \in 0..4 : \E bounds \in CallBounds(n) :
    ReadBounds("keyword", bounds)

\* ------------------------------------------------------------ FileWriter

\* The name of a level's dataset: str(level).
LevelName(k) == ToString(k)

\* A dataset as zarr creates it: every row holds the fill value.
FillArray(shape) ==
  [z \in 1..shape[1] |-> [y \in 1..shape[2] |-> <<"fill">>]]

\* np.empty(shape): an array of rows that hold no defined value.
EmptyArray(shape) ==
  [z \in 1..shape[1] |-> [y \in 1..shape[2] |-> <<"uninit">>]]

\* CreateDataset keeping the data of a dataset of that name and shape.
CreateDatasetKeeps(st, name, shape) ==
  [n \in DOMAIN st \cup {name} |->
     IF n = name
     THEN [shape |-> shape, dtype |-> volume_dtype,
           chunks |-> <<chunk_size, chunk_size, chunk_size>>,
           data |-> IF name \in DOMAIN st /\ st[name].shape = shape
                    THEN st[name].data ELSE FillArray(shape)]
     ELSE st[n]]

\* out_ds.create_dataset(name, shape=shape, dtype=self.reader.volume_dtype,
\* chunks=(c, c, c), overwrite=True): a dataset of that name, if any, is
\* replaced.
CreateDataset(st, name, shape) ==
  [n \in DOMAIN st \cup {name} |->
     IF n = name
     THEN [shape |-> shape, dtype |-> volume_dtype,
           chunks |-> <<chunk_size, chunk_size, chunk_size>>,
           data |-> FillArray(shape)]
     ELSE st[n]]

\* DeleteDataset deleting nothing.
DeleteNothing(st, name) == st

\* del group[name]
DeleteDataset(st, name) == [n \in DOMAIN st \ {name} |-> st[n]]

\* AssignZ writing the block one plane too low.
AssignZShifted(arr, z_start, z_end, block) ==
  [z \in 1..Len(arr) |->
     IF z_start <= z /\ z < z_end /\ z >= 1 THEN block[z - z_start + 1]
     ELSE arr[z]]

\* arr[z_start:z_end, :, :] = block
AssignZ(arr, z_start, z_end, block) ==
  [z \in 1..Len(arr) |->
     IF z_start < z /\ z <= z_end THEN block[z - z_start] ELSE arr[z]]

\* arr[:, y_start:y_end, :] = block, block[z][j] being row y_start + j of
\* plane z
AssignY(arr, y_start, y_end, block) ==
  [z \in 1..Len(arr) |->
     [y \in 1..Len(arr[z]) |->
        IF y_start < y /\ y <= y_end THEN block[z][y - y_start] ELSE arr[z][y]]]

\* resize_xy_slice: one (Y, X) plane resampled to (target_y, target_x); row
\* j of the result is a value of the whole source plane.
ResizeXYSlice(slice_xy, target_y, target_x) ==
  [j \in 1..target_y |-> <<"xy", slice_xy, target_y, target_x, j>>]

\* resize_xz_slice: one (Z, X) plane resampled to (target_z, target_x)
ResizeXZSlice(slice_xz, target_z, target_x) ==
  [j \in 1..target_z |-> <<"xz", slice_xz, target_z, target_x, j>>]

\* CanUseMemory sending an estimate equal to the threshold to disk.
CanUseMemoryBelow(cur_shape, target_y, target_x) ==
  cur_shape[1] * target_y * target_x * 2 < memory_threshold

\* can_use_memory: the Temp Buffer's estimate, doubled, against the threshold
CanUseMemory(cur_shape, target_y, target_x) ==
  cur_shape[1] * target_y * target_x * 2 <= memory_threshold

\* TargetShape rounding up instead of down.
TargetShapeCeil(prev_shape) ==
  <<(prev_shape[1] + resize_factor - 1) \div resize_factor,
    (prev_shape[2] + resize_factor - 1) \div resize_factor,
    (prev_shape[3] + resize_factor - 1) \div resize_factor>>

\* _resize_and_write: the shape of level k >= 1 from that of level k - 1
TargetShape(prev_shape) ==
  <<prev_shape[1] \div resize_factor,
    prev_shape[2] \div resize_factor,
    prev_shape[3] \div resize_factor>>

\* The parameters of FileReader.read, and whether a call that passes these
\* keywords binds to them (Python raises TypeError otherwise).
ReadParameters ==
  {"z_start", "z_end", "x_start", "x_end", "y_start", "y_end"}
CallBinds(keywords) == keywords \subseteq ReadParameters

\* Datasets with a scale that grows linearly in the level.
DatasetsLinear ==
  [k \in 1..n_level |->
     [path |-> LevelName(k - 1),
      coordinateTransformations |->
        <<[type |-> "scale",
           scale |-> [a \in 1..3 |-> resize_factor * (k - 1)]]>>]]

\* _write_multiscale_metadata: the "datasets" list, entry k for level k - 1
Datasets ==
  [k \in 1..n_level |->
     [path |-> LevelName(k - 1),
      coordinateTransformations |->
        <<[type |-> "scale",
           scale |-> [a \in 1..3 |-> resize_factor ^ (k - 1)]]>>]]

\* _write_multiscale_metadata: the document set as group.attrs["multiscales"]
Multiscales ==
  <<[version |-> "0.4", name |-> "image",
     axes |-> <<[name |-> "z", type |-> "space"],
                [name |-> "y", type |-> "space"],
                [name |-> "x", type |-> "space"]>>,
     datasets |-> Datasets]>>

\* NextLevel stepping over a level.
NextLevelSkips(k) == k + 2

\* write()'s loop: the level after `k`
NextLevel(k) == k + 1

\* main() of converter.py: FileWriter(reader, output, full_res_shape, ...)
\* over the constructed reader, full_res_shape being the override or the
\* reader's volume_shape.
WriterConstruct(shape, levels, factor, chunk, threshold) ==
  /\ rpc = "ready"
  /\ wpc = "none"
  /\ full_res_shape' = shape
  /\ n_level' = levels
  /\ resize_factor' = factor
  /\ chunk_size' = chunk
  /\ memory_threshold' = threshold
  /\ wpc' = "idle"
  /\ UNCHANGED <<store, attrs, level, current_shape, target_shape,
                 use_temp_store, temp, zpos, ypos, werror, log,
                 interrupted_at>>
  /\ UNCHANGED rvars

\* write() up to its loop: the group at ome_path is opened, or created.
WriteStart ==
  /\ wpc \in {"idle", "done", "failed"}
  /\ wpc' = "level"
  /\ level' = 0
  /\ werror' = "none"
  /\ log' = <<>>
  /\ UNCHANGED <<full_res_shape, n_level, resize_factor, chunk_size,
                 memory_threshold, store, attrs, current_shape, target_shape,
                 use_temp_store, temp, zpos, ypos, interrupted_at>>
  /\ UNCHANGED rvars

\* write()'s loop condition: range(n_level) still holds level k
LevelsLeft(k) == k < n_level

\* Where _resize_and_write_level stands with z_start = z and y_start = y:
\* in Pass 1 while Z-chunks are left, then in Pass 2 while Y-chunks are
\* left, then back in write()'s loop.
PhaseAt(inPass1, z, y, cur_z, tgt_y) ==
  IF inPass1 /\ z < cur_z THEN "pass1"
  ELSE IF y < tgt_y THEN "pass2"
  ELSE "level"

\* The level in hand returns: write()'s loop moves on when `phase` is
\* "level", and the heap Temp Buffer, a local, is dropped.
LevelReturns(phase, tmp, lg) ==
  /\ wpc' = phase
  /\ IF phase = "level"
     THEN /\ level' = NextLevel(level)
          /\ temp' = <<>>
          /\ log' = Append(lg, <<"done", level>>)
     ELSE /\ level' = level
          /\ temp' = tmp
          /\ log' = lg

\* write() ends with exception e.
WriteRaises(e) ==
  /\ wpc' = "failed"
  /\ werror' = e
  /\ temp' = <<>>
  /\ interrupted_at' = level

\* One iteration of write()'s loop up to the first chunk: _resize_and_write,
\* then either the head of the level-0 copy (_resize_level_zero) or the head
\* of _resize_and_write_level (the level's dataset, the Temp Buffer).
LevelStart ==
  /\ wpc = "level"
  /\ LevelsLeft(level)
  /\ IF level = 0 /\ volume_shape = full_res_shape
     THEN /\ store' = CreateDataset(store, "0", full_res_shape)
          /\ current_shape' = volume_shape
          /\ target_shape' = full_res_shape
          /\ zpos' = 0
          /\ LevelReturns(IF 0 < volume_shape[1] THEN "copy" ELSE "level",
                          temp, Append(log, <<"start", level>>))
          /\ UNCHANGED <<use_temp_store, ypos>>
     ELSE LET cur == IF level = 0 THEN volume_shape
                     ELSE store[LevelName(level - 1)].shape
              tgt == IF level = 0 THEN full_res_shape ELSE TargetShape(cur)
              st1 == CreateDataset(store, LevelName(level), tgt)
              tshape == <<cur[1], tgt[2], tgt[3]>>
              uts == ~CanUseMemory(cur, tgt[2], tgt[3])
          IN /\ current_shape' = cur
             /\ target_shape' = tgt
             /\ use_temp_store' = uts
             /\ store' = IF uts THEN CreateDataset(st1, "temp", tshape) ELSE st1
             /\ zpos' = 0
             /\ ypos' = 0
             /\ LevelReturns(PhaseAt(TRUE, 0, 0, cur[1], tgt[2]),
                             IF uts THEN <<>> ELSE EmptyArray(tshape),
                             Append(log, <<"start", level>>))
  /\ UNCHANGED <<full_res_shape, n_level, resize_factor, chunk_size,
                 memory_threshold, attrs, werror, interrupted_at>>
  /\ UNCHANGED <<cvars, lvars, svars, kvars, init_error, pvars>>
  /\ scan_loads' = IF level = 0 THEN <<>> ELSE scan_loads

\* The level-0 copy loop calls self.reader.read(z_start=..., z_end=...).
CopyRead ==
  /\ wpc = "copy"
  /\ IF CallBinds({"z_start", "z_end"})
     THEN /\ ReadBegin(zpos, Min(zpos + chunk_size, current_shape[1]))
          /\ wpc' = "copy_wait"
          /\ UNCHANGED <<temp, werror, interrupted_at>>
     ELSE /\ WriteRaises("TypeError")
          /\ UNCHANGED rvars
  /\ UNCHANGED <<full_res_shape, n_level, resize_factor, chunk_size,
                 memory_threshold, store, attrs, level, current_shape,
                 target_shape, use_temp_store, zpos, ypos, log>>

\* The read of the copy loop has ended: out_ds["0"][z_start:z_end] = block,
\* which zarr refuses (ValueError) for a block of another Z-extent.  An
\* exception of read ends write().
CopyStore ==
  /\ wpc = "copy_wait"
  /\ rpc = "ready"
  /\ LET z_end == Min(zpos + chunk_size, current_shape[1])
     IN IF outcome = "ok" /\ Len(result) = z_end - zpos
        THEN /\ store' = [store EXCEPT
                            !["0"].data = AssignZ(@, zpos, z_end, result)]
             /\ zpos' = z_end
             /\ LevelReturns(IF z_end < current_shape[1] THEN "copy" ELSE "level",
                             temp, log)
             /\ UNCHANGED <<werror, interrupted_at>>
        ELSE /\ WriteRaises(IF outcome = "ok" THEN "ValueError" ELSE outcome)
             /\ UNCHANGED <<store, zpos, level, log>>
  /\ UNCHANGED <<full_res_shape, n_level, resize_factor, chunk_size,
                 memory_threshold, attrs, current_shape, target_shape,
                 use_temp_store, ypos>>
  /\ UNCHANGED rvars

\* Pass 1 of level 0 calls self.reader.read(start_z=..., end_z=...): the
\* call does not bind to read's parameters and raises TypeError before read
\* runs.
Pass1ChunkFromReader ==
  /\ wpc = "pass1"
  /\ level = 0
  /\ IF CallBinds({"start_z", "end_z"})
     THEN /\ ReadBegin(zpos, Min(zpos + chunk_size, current_shape[1]))
          /\ wpc' = "pass1_wait"
          /\ UNCHANGED <<temp, werror, interrupted_at>>
     ELSE /\ WriteRaises("TypeError")
          /\ UNCHANGED rvars
  /\ UNCHANGED <<full_res_shape, n_level, resize_factor, chunk_size,
                 memory_threshold, store, attrs, level, current_shape,
                 target_shape, use_temp_store, zpos, ypos, log>>

\* The orders in which the pool workers may complete n submitted tasks:
\* done[k] is the task that completes k-th.
CompletionOrders(n) ==
  {done \in [1..n -> 1..n] :
     \A a, b \in 1..n : a # b => done[a] # done[b]}

\* The results listed in the order the workers complete.
ExecutorAsCompleted(done, outs) == [k \in 1..Len(outs) |-> outs[done[k]]]

\* list(executor.map(fn, args_list)): outs[idx] being fn(args_list[idx]),
\* the results in the order of args_list, whichever order the workers
\* complete in.
ExecutorMap(done, outs) == outs

\* The Temp Buffer of the level in hand.
TempBuffer == IF use_temp_store THEN store["temp"].data ELSE temp

\* Pass 1, one Z-chunk of a level k >= 1: the planes of level k - 1 are
\* resampled in (Y, X), executor.map keeping them in the order of the
\* chunk, and written to the Temp Buffer at the chunk's Z range.
Pass1Chunk ==
  /\ wpc = "pass1"
  /\ level >= 1
  /\ \E done \in CompletionOrders(Min(zpos + chunk_size, current_shape[1])
                                     - zpos) :
     LET z_end == Min(zpos + chunk_size, current_shape[1])
         block == Slice(store[LevelName(level - 1)].data, zpos, z_end)
         resized_block ==
           ExecutorMap(done,
             [idx \in 1..(z_end - zpos) |->
                ResizeXYSlice(block[idx], target_shape[2], target_shape[3])])
         newtemp == AssignZ(TempBuffer, zpos, z_end, resized_block)
     IN /\ store' = IF use_temp_store
                    THEN [store EXCEPT !["temp"].data = newtemp]
                    ELSE store
        /\ zpos' = z_end
        /\ LevelReturns(PhaseAt(TRUE, z_end, 0, current_shape[1], target_shape[2]),
                        IF use_temp_store THEN temp ELSE newtemp, log)
  /\ UNCHANGED <<full_res_shape, n_level, resize_factor, chunk_size,
                 memory_threshold, attrs, current_shape, target_shape,
                 use_temp_store, ypos, werror, interrupted_at>>
  /\ UNCHANGED rvars

\* Pass 2, one Y-chunk: for every row of the chunk the (Z, X) plane of the
\* Temp Buffer is resampled in Z, the results are stacked in the order of
\* the chunk, transposed, and written to the level at the chunk's Y range.
Pass2Chunk ==
  /\ wpc = "pass2"
  /\ \E done \in CompletionOrders(Min(ypos + chunk_size, target_shape[2])
                                     - ypos) :
     LET y_end == Min(ypos + chunk_size, target_shape[2])
         results ==
           ExecutorMap(done,
             [idx \in 1..(y_end - ypos) |->
                ResizeXZSlice([z \in 1..current_shape[1] |->
                                 TempBuffer[z][ypos + idx]],
                              target_shape[1], target_shape[3])])
         resized_block ==
           [z \in 1..target_shape[1] |->
              [idx \in 1..(y_end - ypos) |-> results[idx][z]]]
     IN /\ store' = [store EXCEPT
                       ![LevelName(level)].data =
                          AssignY(@, ypos, y_end, resized_block)]
        /\ ypos' = y_end
        /\ LevelReturns(PhaseAt(FALSE, zpos, y_end, current_shape[1],
                                target_shape[2]), temp, log)
  /\ UNCHANGED <<full_res_shape, n_level, resize_factor, chunk_size,
                 memory_threshold, attrs, current_shape, target_shape,
                 use_temp_store, zpos, werror, interrupted_at>>
  /\ UNCHANGED rvars

\* A resampling worker of the pass in hand raises: executor.map re-raises
\* it and write() ends.
ResampleFail ==
  /\ \/ wpc = "pass1" /\ level >= 1
     \/ wpc = "pass2"
  /\ WriteRaises("WorkerFailure")
  /\ UNCHANGED <<full_res_shape, n_level, resize_factor, chunk_size,
                 memory_threshold, store, attrs, level, current_shape,
                 target_shape, use_temp_store, zpos, ypos, log>>
  /\ UNCHANGED rvars

\* write() is interrupted (KeyboardInterrupt) as its loop takes up a level,
\* before the level's dataset is created: the store stays as the levels so
\* far left it.
Interrupt ==
  /\ wpc = "level"
  /\ LevelsLeft(level)
  /\ WriteRaises("KeyboardInterrupt")
  /\ UNCHANGED <<full_res_shape, n_level, resize_factor, chunk_size,
                 memory_threshold, store, attrs, level, current_shape,
                 target_shape, use_temp_store, zpos, ypos, log>>
  /\ UNCHANGED rvars

\* write() after its loop: the 'temp' dataset, if any, is deleted and the
\* multiscale metadata is written.
Finish ==
  /\ wpc = "level"
  /\ ~LevelsLeft(level)
  /\ store' = IF "temp" \in DOMAIN store THEN DeleteDataset(store, "temp")
              ELSE store
  /\ attrs' = Multiscales
  /\ wpc' = "done"
  /\ log' = Append(log, <<"meta", n_level>>)
  /\ UNCHANGED <<full_res_shape, n_level, resize_factor, chunk_size,
                 memory_threshold, level, current_shape, target_shape,
                 use_temp_store, temp, zpos, ypos, werror, interrupted_at>>
  /\ UNCHANGED rvars

\* ------------------------------------------------------------ the volume

\* The Z-offset of file i in the logical volume: the sum of the Z-extents of
\* the files before it, in sorted file order.
RECURSIVE SegStart(_)
SegStart(i) == IF i = 1 THEN 0 ELSE SegStart(i - 1) + fileZ[i - 1]
SegEnd(i) == SegStart(i) + fileZ[i]

\* The segments of the volume that [z0, z1) overlaps.
Overlapping(z0, z1) ==
  {i \in 1..Len(fileZ) : SegStart(i) < z1 /\ SegEnd(i) > z0}

\* Segment i's own sub-range [max(z0, start_i), min(z1, end_i)), taken
\* relative to the segment's z-offset.
OwnSubRange(i, z0, z1) ==
  SubSeq(FileData(i), Max(z0, SegStart(i)) - SegStart(i) + 1,
                      Min(z1, SegEnd(i)) - SegStart(i))

RECURSIVE ConcatOwn(_, _, _)
ConcatOwn(S, z0, z1) ==
  IF S = {} THEN <<>>
  ELSE LET i == CHOOSE j \in S : \A k \in S : j <= k
       IN OwnSubRange(i, z0, z1) \o ConcatOwn(S \ {i}, z0, z1)

\* The segment records whose range [prev_cum_z, cum_z) holds some z of [z0, z1).
Intersecting(z0, z1) ==
  {i \in 1..Len(volume_cumulative_z) :
     \E z \in z0..(z1 - 1) : PrevCum(i) <= z /\ z < volume_cumulative_z[i]}

\* A read has returned or raised and no other has started since.
ReadEnded == rpc = "ready" /\ outcome # "none"

\* ------------------------------------------------------------ claims, FileReader

\* C1: every read(z0, z1) with 0 <= z0 < z1 <= total_z that returns, returns
\* an array whose Z-extent is z1 - z0.
C1_ReadZExtent ==
  (ReadEnded /\ outcome = "ok") => Len(result) = req[2] - req[1]

\* C2: a read spanning two or more segments returns the concatenation, in
\* ascending segment order, of each overlapping segment's own sub-range.
C2_ReadIsConcatenation ==
  (ReadEnded /\ outcome = "ok" /\ Cardinality(Overlapping(req[1], req[2])) >= 2)
    => result = ConcatOwn(Overlapping(req[1], req[2]), req[1], req[2])

\* C3: after construction the i-th segment record is that of the i-th file:
\* volume_cumulative_z[i] is the sum of the Z-extents of files 1..i and
\* volume_sizes[i] is the size estimate of file i.
C3_RecordsInFileOrder ==
  rpc \notin {"probing", "aborted"} =>
    \A i \in 1..Len(fileZ) :
      /\ volume_cumulative_z[i] = SegEnd(i)
      /\ volume_sizes[i] = EstimateSize(i)

ReadExceeds == 2 * SumOver(volume_sizes, needed) > memory_limit

C19_ProbeFailureNamesFile ==
  init_error.type = "RuntimeError" => init_error.names = init_error.probe

\* ------------------------------------------------------------ claims, _read_image

\* A shape, and an array, with its last two axes exchanged.
SwapYX(shape) ==
  IF Len(shape) = 2 THEN <<shape[2], shape[1]>>
  ELSE <<shape[1], shape[3], shape[2]>>
SwapYXArray(arr) ==
  [status |-> arr.status, shape |-> SwapYX(arr.shape),
   at |-> [ix \in Indices(SwapYX(arr.shape)) |->
             arr.at[IF Len(ix) = 2 THEN <<ix[2], ix[1]>>
                    ELSE <<ix[1], ix[3], ix[2]>>]]]

\* C16: with transpose enabled, for every format the metadata shape and the
\* loaded data of a volume file have the Y and X axes swapped relative to
\* what the same file gives with transpose disabled, and the metadata shape
\* of the file is the shape of its loaded array.
C16_TransposeEveryFormat ==
  Len(raw) = 3 =>
    /\ (transpose /\ probed.status # "none") =>
         /\ probed.status = "ok"
         /\ probed.shape = SwapYX(read_image(suffix, raw, FALSE, FALSE).shape)
    /\ (transpose /\ loaded.status # "none") =>
         /\ loaded.status = "ok"
         /\ loaded = SwapYXArray(read_image(suffix, raw, TRUE, FALSE))
    /\ (probed.status # "none" /\ loaded.status # "none") =>
         probed.shape = loaded.shape

\* The (Y, X) of a single-plane file: NIfTI stores (x, y).
PlaneYX == IF suffix = ".nii.gz" THEN <<raw[2], raw[1]>> ELSE raw

\* C17: for every format a single-plane input of shape (Y, X) is promoted
\* to (1, Y, X) before transpose and shape bookkeeping: the metadata probe
\* and the load both succeed, with or without transpose, and both give
\* Z-extent 1 and the XY shape (Y, X), or (X, Y) with transpose.
C17_PlanePromoted ==
  Len(raw) = 2 =>
    LET shape == IF transpose THEN <<1, PlaneYX[2], PlaneYX[1]>>
                 ELSE <<1, PlaneYX[1], PlaneYX[2]>>
    IN /\ probed.status # "none" =>
            (probed.status = "ok" /\ probed.shape = shape)
       /\ loaded.status # "none" =>
            (loaded.status = "ok" /\ loaded.shape = shape)

\* ------------------------------------------------------------ claims, _get_volume_files

\* The input path resolves to no segment: it is neither a file of a valid
\* suffix nor a Zarr directory, and either a directory without an entry of
\* a valid suffix or a path of an unrecognized suffix.
ResolvesNoSegment ==
  /\ input_path.suffix \notin VALID_SUFFIXES
  /\ ~input_path.zarr
  /\ input_path.suffix = "" =>
       \A k \in 1..Len(input_path.entries) :
         input_path.entries[k] \notin VALID_SUFFIXES

\* C20, as claimed: construction fails with FileNotFoundError for every
\* input path that resolves to no segment, a path of an unrecognized suffix
\* included, and no reader with an empty segment list is returned.
C20_NoSegmentNotFound ==
  rpc \in {"listed", "aborted"} =>
    /\ ResolvesNoSegment =>
         (rpc = "aborted" /\ init_error.type = "FileNotFoundError")
    /\ rpc = "listed" => volume_files # <<>>

\* C20, amended: construction fails with FileNotFoundError for a directory
\* that is empty or holds no entry of a valid suffix and with ValueError
\* for a path of an unrecognized suffix, and no reader with an empty
\* segment list is returned.
C20_NoSegmentFails ==
  rpc \in {"listed", "aborted"} =>
    /\ ResolvesNoSegment =>
         /\ rpc = "aborted"
         /\ init_error.type =
              IF input_path.suffix = "" THEN "FileNotFoundError"
              ELSE "ValueError"
    /\ rpc = "listed" => (volume_files # <<>> /\ volume_types # <<>>)

\* C20's case: construction has failed on a directory of two or more
\* entries, none of a valid suffix.
C20_Witness ==
  /\ rpc = "aborted"
  /\ init_error.type = "FileNotFoundError"
  /\ input_path.suffix = ""
  /\ Len(input_path.entries) >= 2

\* The sequence seq lists the set of numbers in ascending order.
ListsAscending(seq, set) ==
  /\ Len(seq) = Cardinality(set)
  /\ {seq[a] : a \in 1..Len(seq)} = set
  /\ \A a, b \in 1..Len(seq) : a < b => seq[a] < seq[b]

\* The entries of the sorted directory of a valid suffix, and those with
\* the suffix of the first of them.
ValidEntries == {k \in 1..Len(input_path.entries) :
                   input_path.entries[k] \in VALID_SUFFIXES}
FirstSuffixEntries ==
  {k \in 1..Len(input_path.entries) :
     \E f \in ValidEntries :
       /\ \A g \in ValidEntries : f <= g
       /\ input_path.entries[k] = input_path.entries[f]}

\* C22: for a plain directory input the segment list is exactly the
\* directory's entries, in sorted order, whose suffix equals the first valid
\* suffix met in that order; every other entry is left out with a warning,
\* and where a valid suffix is met the listing does not fail.
C22_DirectoryListing ==
  (rpc \in {"listed", "aborted"} /\ input_path.suffix = ""
     /\ ~input_path.zarr) =>
    /\ ListsAscending(volume_files, FirstSuffixEntries)
    /\ volume_types = [a \in 1..Len(volume_files) |->
                         input_path.entries[volume_files[a]]]
    /\ ListsAscending(warned,
                      (1..Len(input_path.entries)) \ FirstSuffixEntries)
    /\ ValidEntries # {} => (rpc = "listed" /\ init_error = NoError)

\* C22's case: a directory listed with an entry left out before the first
\* valid suffix and an entry of another valid suffix left out after it.
C22_Witness ==
  /\ rpc = "listed"
  /\ input_path.suffix = ""
  /\ ~input_path.zarr
  /\ \E j, k \in 1..Len(input_path.entries) :
       /\ j < volume_files[1]
       /\ k > volume_files[1]
       /\ input_path.entries[k] \in VALID_SUFFIXES
       /\ input_path.entries[k] # volume_types[1]
       /\ ListsAscending(warned, {j, k})

\* C24: running main() with a valid input path constructs the FileReader
\* (with the configured memory limit as its budget), so that the writer
\* can be constructed over it and write() called: the call of FileReader
\* does not end main() with an exception unless the input path resolves to
\* no segment.
C24_MainConstructsReader ==
  rpc = "aborted" => ResolvesNoSegment

\* C18: read(z0, z1, y0, y1, x0, x1) with the bounds passed positionally
\* in that order returns planes cut to the rows [y0, y1) and the columns
\* [x0, x1), so of shape (y1 - y0, x1 - x0), an omitted bound being that of
\* the full extent of its own axis.
C18_PositionalBounds ==
  call.how = "positional" =>
    LET b == call.bounds
        y0 == IF Len(b) >= 1 THEN b[1] ELSE 0
        y1 == IF Len(b) >= 2 THEN b[2] ELSE volume_shape[2]
        x0 == IF Len(b) >= 3 THEN b[3] ELSE 0
        x1 == IF Len(b) >= 4 THEN b[4] ELSE volume_shape[3]
    IN /\ cropped.rows = [j \in 1..(y1 - y0) |-> y0 + j - 1]
       /\ cropped.cols = [j \in 1..(x1 - x0) |-> x0 + j - 1]

\* ------------------------------------------------------------ claims, FileWriter

\* C7: a level whose dataset exists when write() reaches it is skipped:
\* the step of write() that takes up the level leaves the store as it is.
C7_ExistingLevelSkipped ==
  [][(wpc = "level" /\ LevelsLeft(level) /\ LevelName(level) \in DOMAIN store)
       => store' = store]_vars

\* C8: when the native shape differs from full_res_shape, level 0 is
\* produced by the two-pass resize from read(z_start, z_end) and committed:
\* write() gives up on level 0 only when a read or a resampling worker fails
\* or write() is interrupted.
C8_LevelZeroResized ==
  (wpc = "failed" /\ level = 0 /\ volume_shape # full_res_shape)
    => werror \in {"MemoryError", "RuntimeError", "WorkerFailure",
                   "KeyboardInterrupt"}

\* What one write() does when nothing fails, in order.
IdealLog ==
  [j \in 1..(2 * n_level + 1) |->
     IF j = 2 * n_level + 1 THEN <<"meta", n_level>>
     ELSE IF j % 2 = 1 THEN <<"start", (j - 1) \div 2>>
     ELSE <<"done", (j \div 2) - 1>>]

\* Every row of the dataset has been written.
Complete(name) ==
  /\ name \in DOMAIN store
  /\ \A z \in 1..Len(store[name].data) :
       \A y \in 1..Len(store[name].data[z]) :
         /\ store[name].data[z][y] # <<"fill">>
         /\ store[name].data[z][y] # <<"uninit">>

\* C9: within one write() the levels are started and completed in the order
\* 0, 1, ..., n_level - 1, each completely written before the next starts
\* and none returned to, and the multiscale metadata is written once, only
\* after every level, and never by a write() that failed.
C9_LevelsInOrder ==
  wpc \notin {"none", "idle"} =>
    /\ Len(log) <= 2 * n_level + 1
    /\ \A j \in 1..Len(log) : log[j] = IdealLog[j]
    /\ \A j \in 1..Len(log) :
         log[j][1] = "done" => Complete(LevelName(log[j][2]))
    /\ wpc = "failed" => Len(log) <= 2 * n_level
    /\ Len(log) = 2 * n_level + 1 =>
         /\ wpc = "done"
         /\ attrs = Multiscales
         /\ \A k \in 0..(n_level - 1) : Complete(LevelName(k))

\* C9's case: a write() of two or more levels has written its metadata.
C9_Witness ==
  /\ wpc = "done"
  /\ n_level >= 2
  /\ Len(log) = 2 * n_level + 1

\* C10: level 0 has shape full_res_shape and level k >= 1 the elementwise
\* floor of level k - 1's shape over the factor; (64, 256, 256) at factor 2
\* gives (32, 128, 128), (16, 64, 64), (8, 32, 32).
C10_LevelShapes ==
  wpc \notin {"none", "idle"} =>
    /\ "0" \in DOMAIN store => store["0"].shape = full_res_shape
    /\ \A k \in 1..(n_level - 1) :
         LevelName(k) \in DOMAIN store =>
           /\ LevelName(k - 1) \in DOMAIN store
           /\ \A a \in 1..3 :
                LET prev == store[LevelName(k - 1)].shape[a]
                    this == store[LevelName(k)].shape[a]
                IN /\ resize_factor * this <= prev
                   /\ prev < resize_factor * (this + 1)
    /\ resize_factor = 2 =>
         /\ TargetShape(<<64, 256, 256>>) = <<32, 128, 128>>
         /\ TargetShape(<<32, 128, 128>>) = <<16, 64, 64>>
         /\ TargetShape(<<16, 64, 64>>) = <<8, 32, 32>>

\* C10's case: a completed write() whose level 1 has an axis that the
\* factor does not divide.
C10_Witness ==
  /\ wpc = "done"
  /\ n_level >= 2
  /\ \E a \in 1..3 :
       store["0"].shape[a] # resize_factor * store["1"].shape[a]

\* The source volume: the planes of the files, in sorted file order.
SourceVolume == Flatten([i \in 1..Len(fileZ) |-> FileData(i)])

\* C11: when the native shape equals full_res_shape, level 0 is produced by
\* copy only: no resampling pass runs for it, the copied Z-chunks start at
\* the multiples of chunk_size and each fills its own Z range with planes
\* as read, so that exactly the planes of [0, zpos) are written, and the
\* completed level 0 is the source volume.
C11_CopyPath ==
  (wpc \notin {"none", "idle"} /\ volume_shape = full_res_shape) =>
    /\ level = 0 => wpc \notin {"pass1", "pass1_wait", "pass2"}
    /\ (level = 0 /\ wpc \in {"copy", "copy_wait", "failed"}
        /\ log # <<>>) =>
         /\ zpos % chunk_size = 0 \/ zpos = volume_shape[1]
         /\ \A z \in 1..volume_shape[1] :
              IF z <= zpos
              THEN \A y \in 1..volume_shape[2] :
                     store["0"].data[z][y][1] = "src"
              ELSE store["0"].data[z] = FillArray(full_res_shape)[z]
    /\ (Len(log) >= 2 /\ "0" \in DOMAIN store) =>
         store["0"].data = SourceVolume

\* C11's case: a write() has copied a volume of two or more files in
\* Z-chunks of two planes, the last chunk a short one.
C11_Witness ==
  /\ wpc = "done"
  /\ volume_shape = full_res_shape
  /\ Len(fileZ) >= 2
  /\ chunk_size = 2
  /\ volume_shape[1] % chunk_size = 1
  /\ store["0"].data = SourceVolume

TwoPass(prev, cur, tgt) ==
  LET tmp == [z \in 1..cur[1] |-> ResizeXYSlice(prev[z], tgt[2], tgt[3])]
  IN [z \in 1..tgt[1] |->
        [y \in 1..tgt[2] |->
           ResizeXZSlice([zz \in 1..cur[1] |-> tmp[zz][y]], tgt[1], tgt[3])[z]]]

\* The shape and the contents level k has after a write() that nothing
\* interrupts, over a reader whose native shape is full_res_shape.
RECURSIVE ExpectedShape(_)
ExpectedShape(k) ==
  IF k = 0 THEN full_res_shape ELSE TargetShape(ExpectedShape(k - 1))
RECURSIVE ExpectedLevel(_)
ExpectedLevel(k) ==
  IF k = 0 THEN SourceVolume
  ELSE TwoPass(ExpectedLevel(k - 1), ExpectedShape(k - 1), ExpectedShape(k))

\* C13: a write() that follows an interrupted one reprocesses the level the
\* interruption was in from scratch: when its first pass begins the level's
\* dataset holds nothing of the earlier attempt, and after the write() the
\* level's contents are those of an uninterrupted run.
C13_InterruptedLevelRedone ==
  interrupted_at >= 0 =>
    /\ (wpc \in {"copy", "pass1", "pass2"} /\ zpos = 0 /\ ypos = 0
        /\ (wpc = "pass2" => current_shape[1] = 0)) =>
         store[LevelName(level)].data = FillArray(target_shape)
    /\ (wpc = "done" /\ interrupted_at < n_level) =>
         store[LevelName(interrupted_at)].data = ExpectedLevel(interrupted_at)

\* C13's case: a write() whose level 1 takes two Y-chunks has completed
\* after one that was interrupted in level 1.
C13_Witness ==
  /\ wpc = "done"
  /\ interrupted_at = 1
  /\ ypos > chunk_size
  /\ store["1"].data = ExpectedLevel(1)
  /\ store["1"].data # <<>>

\* str(k) of a one-digit k, and f to the power k.
Digits == <<"0", "1", "2", "3", "4", "5", "6", "7", "8", "9">>
RECURSIVE Power(_, _)
Power(f, k) == IF k = 0 THEN 1 ELSE f * Power(f, k - 1)

\* C14: the multiscale descriptor write() has written lists exactly n_level
\* datasets in ascending level order, dataset k with path str(k) and one
\* transform, a scale of f^k on each of the three axes, over the axes z, y,
\* x.
C14_Descriptor ==
  attrs # <<>> =>
    /\ Len(attrs) = 1
    /\ [a \in 1..Len(attrs[1].axes) |-> attrs[1].axes[a].name]
         = <<"z", "y", "x">>
    /\ Len(attrs[1].datasets) = n_level
    /\ \A k \in 0..(n_level - 1) :
         LET d == attrs[1].datasets[k + 1]
         IN /\ d.path = Digits[k + 1]
            /\ Len(d.coordinateTransformations) = 1
            /\ d.coordinateTransformations[1].type = "scale"
            /\ d.coordinateTransformations[1].scale
                 = <<Power(resize_factor, k), Power(resize_factor, k),
                     Power(resize_factor, k)>>

\* C14's case: a write() of two or more levels is done, level 1 scaled by
\* the factor.
C14_Witness ==
  /\ wpc = "done"
  /\ n_level >= 2
  /\ attrs[1].datasets[2].coordinateTransformations[1].scale
       = <<resize_factor, resize_factor, resize_factor>>

\* C23: the "name" field of the multiscale descriptor written by write()
\* is the volume name of the reader the writer was constructed with, the
\* stem of the input path.
C23_DescriptorName ==
  attrs # <<>> =>
    /\ volume_name = input_path.stem
    /\ attrs[1].name = volume_name

\* current_z x target_y x target_x x element_size x 2, the element being
\* the unit of size, for the level in hand.
TempEstimate == current_shape[1] * target_shape[2] * target_shape[3] * 2

\* C25: while a level is resampled its Temp Buffer is an on-disk chunked
\* dataset exactly when the estimate exceeds memory_threshold and a heap
\* array otherwise (an estimate equal to the threshold stays on the heap);
\* either way it has current_z planes of target_y rows (of target_x
\* elements), and the on-disk dataset has the source dtype.
C25_TempBufferBacking ==
  wpc \in {"pass1", "pass2"} =>
    /\ use_temp_store <=> TempEstimate > memory_threshold
    /\ use_temp_store =>
         /\ temp = <<>>
         /\ "temp" \in DOMAIN store
         /\ store["temp"].shape
              = <<current_shape[1], target_shape[2], target_shape[3]>>
         /\ store["temp"].dtype = volume_dtype
         /\ store["temp"].chunks = <<chunk_size, chunk_size, chunk_size>>
    /\ Len(TempBuffer) = current_shape[1]
    /\ \A z \in 1..Len(TempBuffer) : Len(TempBuffer[z]) = target_shape[2]

\* C25's case: level 1 is in Pass 2 with a heap Temp Buffer whose estimate
\* equals the threshold.
C25_Witness ==
  /\ wpc = "pass2"
  /\ level = 1
  /\ ~use_temp_store
  /\ temp # <<>>
  /\ TempEstimate = memory_threshold

\* Plane z of the Temp Buffer holds no result yet: it is as created.
Unwritten(plane) ==
  \A y \in 1..Len(plane) : plane[y] \in {<<"fill">>, <<"uninit">>}

\* What the two passes store: source plane z of the level in hand resampled
\* in (Y, X), and row y of the Temp Buffer resampled in Z, of which output
\* plane z takes its row y.
Pass1Result(z) ==
  ResizeXYSlice(store[LevelName(level - 1)].data[z],
                target_shape[2], target_shape[3])
Pass2Result(z, y) ==
  ResizeXZSlice([zz \in 1..current_shape[1] |-> TempBuffer[zz][y]],
                target_shape[1], target_shape[3])[z]

\* C26: in the two-pass resize the Pass 1 Z-chunks [z, min(z + chunk_size,
\* current_z)) partition [0, current_z) and the result of source plane z is
\* stored at Temp Buffer index z; the Pass 2 Y-chunks partition [0,
\* target_y) and the result of Temp Buffer row y is stored at output row y,
\* whichever order the pool workers complete in; and Pass 2 starts only
\* after Pass 1 has written every Temp Buffer plane of the level.  So in
\* Pass 1 the planes below z_start, a multiple of chunk_size, hold their
\* results and the others nothing, and in Pass 2 every plane holds its
\* result, the output rows below y_start, a multiple of chunk_size, hold
\* theirs and the other rows nothing.
C26_TwoPassPlacement ==
  /\ wpc = "pass1" =>
       /\ zpos % chunk_size = 0
       /\ zpos < current_shape[1]
       /\ \A z \in 1..current_shape[1] :
            IF z <= zpos THEN TempBuffer[z] = Pass1Result(z)
            ELSE Unwritten(TempBuffer[z])
  /\ wpc = "pass2" =>
       /\ zpos = current_shape[1]
       /\ \A z \in 1..current_shape[1] : TempBuffer[z] = Pass1Result(z)
       /\ ypos % chunk_size = 0
       /\ ypos < target_shape[2]
       /\ \A z \in 1..target_shape[1], y \in 1..target_shape[2] :
            store[LevelName(level)].data[z][y] =
              IF y <= ypos THEN Pass2Result(z, y) ELSE <<"fill">>

\* C26's case: Pass 1 of a level of three source planes has run in a full
\* chunk of two workers and a short chunk, and Pass 2 of the level is about
\* to start.
C26_Witness ==
  /\ wpc = "pass2"
  /\ current_shape[1] = 3
  /\ chunk_size = 2
  /\ target_shape[1] >= 1
  /\ ypos = 0

\* C28: during a scan that calls read on consecutive ascending Z ranges
\* from 0 on (the level-0 copy), every segment is loaded from its file at
\* most once: while a range of the scan is read, a segment that an earlier
\* range of the scan intersected is in the cache and is not loaded, and a
\* segment the read has evicted lies below the range.
C28_ScanLoadsOnce ==
  /\ \A i \in DOMAIN scan_loads : scan_loads[i] <= 1
  /\ (wpc = "copy_wait" /\ rpc = "loading") =>
       \A i \in pendingLoads : PrevCum(i) >= req[1]
  /\ (wpc = "copy_wait" /\ req[1] > 0) =>
       \A i \in cacheBefore \ DOMAIN cache : volume_cumulative_z[i] <= req[1]

\* C28's case: the level-0 copy has scanned a volume of two or more
\* segments, one of them of two planes, plane by plane, and has loaded
\* every segment.
C28_Witness ==
  /\ wpc = "level"
  /\ level = 1
  /\ chunk_size = 1
  /\ Len(fileZ) >= 2
  /\ \E i \in 1..Len(fileZ) : fileZ[i] = 2
  /\ DOMAIN scan_loads = 1..Len(fileZ)

\* C15: after write() returns normally the store holds exactly the datasets
\* "0" to str(n_level - 1) and no other, no 'temp' in particular, whichever
\* backing the Temp Buffers had.
C15_StoreContents ==
  wpc = "done" => DOMAIN store = {Digits[k + 1] : k \in 0..(n_level - 1)}

\* C15's case: a write() of two or more levels has returned, its last level
\* staged in the 'temp' dataset.
C15_Witness ==
  /\ wpc = "done"
  /\ n_level >= 2
  /\ use_temp_store
  /\ "temp" \notin DOMAIN store

\* ------------------------------------------------------------ specification

\* No FileWriter yet.
WriterAbsent ==
  /\ full_res_shape = <<>>
  /\ n_level = 0
  /\ resize_factor = 0
  /\ chunk_size = 0
  /\ memory_threshold = 0
  /\ store = <<>>
  /\ attrs = <<>>
  /\ wpc = "none"
  /\ level = 0
  /\ current_shape = <<>>
  /\ target_shape = <<>>
  /\ use_temp_store = FALSE
  /\ temp = <<>>
  /\ zpos = 0
  /\ ypos = 0
  /\ werror = "none"
  /\ log = <<>>
  /\ interrupted_at = -1
  /\ scan_loads = <<>>

\* No result of _read_image, and no call of read with Y and X bounds.
NoResult == [status |-> "none", shape |-> <<>>, at |-> <<>>]
NoProbe == [status |-> "none", shape |-> <<>>, size |-> 0]
NoCall ==
  /\ call = [how |-> "none", bounds |-> <<>>]
  /\ cropped = [rows |-> <<>>, cols |-> <<>>]

\* The files' records before the metadata probes.
NoRecords ==
  /\ shapes = <<>>
  /\ dtypes = <<>>
  /\ volume_dtype = "None"

\* No FileReader yet.
ReaderAbsent ==
  /\ fileZ = <<>>
  /\ fileYX = <<>>
  /\ memory_limit = 0
  /\ volume_sizes = <<>>
  /\ volume_cumulative_z = <<>>
  /\ volume_shape = <<>>
  /\ cache = <<>>
  /\ rpc = "none"
  /\ pendingProbes = {}
  /\ pendingLoads = {}
  /\ req = <<0, 0>>
  /\ needed = {}
  /\ outcome = "none"
  /\ result = <<>>
  /\ cacheBefore = {}
  /\ fileRaw = <<>>
  /\ fileDtype = <<>>
  /\ NoRecords

\* No input path taken up yet.
NoListing ==
  /\ input_path = [stem |-> "", suffix |-> "", zarr |-> FALSE,
                   entries |-> <<>>]
  /\ volume_files = <<>>
  /\ volume_types = <<>>
  /\ volume_name = "None"
  /\ warned = <<>>
  /\ init_error = NoError

\* FileReader(input_path, memory_limit_gb=...) over a directory of TIFF
\* files has listed the files and submitted one metadata probe per file.
Init ==
  /\ fileZ \in UNION {[1..n -> Extents] : n \in 1..MaxFiles}
  /\ fileYX \in XYShapes
  /\ fileRaw = [i \in 1..Len(fileZ) |-> <<fileZ[i], fileYX[1], fileYX[2]>>]
  /\ fileDtype = [i \in 1..Len(fileZ) |-> "uint16"]
  /\ NoRecords
  /\ memory_limit \in MemoryLimits
  /\ input_path = [stem |-> InputStem, suffix |-> "", zarr |-> FALSE,
                   entries |-> [i \in 1..Len(fileZ) |-> ".tif"]]
  /\ volume_files = [i \in 1..Len(fileZ) |-> i]
  /\ volume_types = [i \in 1..Len(fileZ) |-> ".tif"]
  /\ volume_name = InputStem
  /\ warned = <<>>
  /\ init_error = NoError
  /\ suffix = ".tif"
  /\ raw = <<>>
  /\ transpose = FALSE
  /\ probed = NoProbe
  /\ loaded = NoResult
  /\ NoCall
  /\ volume_sizes = <<>>
  /\ volume_cumulative_z = <<>>
  /\ volume_shape = <<>>
  /\ cache = <<>>
  /\ rpc = "probing"
  /\ pendingProbes = 1..Len(fileZ)
  /\ pendingLoads = {}
  /\ req = <<0, 0>>
  /\ needed = {}
  /\ outcome = "none"
  /\ result = <<>>
  /\ cacheBefore = {}
  /\ WriterAbsent

Next ==
  \/ \E i \in 1..MaxFiles : ProbeComplete(i)
  \/ \E i \in 1..MaxFiles : ProbeFail(i)
  \/ \E z0 \in 0..MaxTotalZ, z1 \in 1..MaxTotalZ : Read(z0, z1)
  \/ \E i \in 1..MaxFiles : LoadComplete(i)
  \/ \E i \in 1..MaxFiles : LoadFail(i)

Spec == Init /\ [][Next]_vars

\* The converter: a reader is constructed, a writer over it, and write()
\* is called, any number of times.
NextWriter ==
  \/ \E i \in 1..MaxFiles : ProbeComplete(i)
  \/ \E shape \in {volume_shape} \cup OverrideShapes, levels \in 1..MaxLevels,
        factor \in ResizeFactors, chunk \in ChunkSizes,
        threshold \in MemoryThresholds :
       WriterConstruct(shape, levels, factor, chunk, threshold)
  \/ WriteStart
  \/ LevelStart
  \/ CopyRead
  \/ \E i \in 1..MaxFiles : LoadComplete(i)
  \/ \E i \in 1..MaxFiles : LoadFail(i)
  \/ CopyStore
  \/ Pass1ChunkFromReader
  \/ Pass1Chunk
  \/ Pass2Chunk
  \/ ResampleFail
  \/ Interrupt
  \/ Finish

SpecWriter == Init /\ [][NextWriter]_vars

\* One file of some format, shape and transpose setting, before its
\* metadata probe and its load.
InitFormats ==
  /\ suffix \in Suffixes
  /\ raw \in RawShapes
  /\ transpose \in BOOLEAN
  /\ probed = NoProbe
  /\ loaded = NoResult
  /\ NoCall
  /\ NoListing
  /\ ReaderAbsent
  /\ WriterAbsent

NextFormats ==
  \/ ProbeFile
  \/ LoadFile

SpecFormats == InitFormats /\ [][NextFormats]_vars

\* FileReader(input_path) before _get_volume_files: the path is a file, a
\* path holding ".zarr", a directory with its sorted entries, or another
\* path.
InitListing ==
  /\ input_path \in
       {[stem |-> st, suffix |-> pz[1], zarr |-> pz[2], entries |-> <<>>] :
          st \in Stems,
          pz \in {q \in PathSuffixes \X BOOLEAN :
                    /\ q[1] = ".zarr" => q[2]
                    /\ q[1] = "" => q[2]}}
       \cup
       {[stem |-> st, suffix |-> "", zarr |-> FALSE, entries |-> e] :
          st \in Stems,
          e \in UNION {[1..n -> EntrySuffixes] : n \in 0..MaxEntries}}
  /\ volume_files = <<>>
  /\ volume_types = <<>>
  /\ volume_name = "None"
  /\ warned = <<>>
  /\ init_error = NoError
  /\ suffix = ""
  /\ raw = <<>>
  /\ transpose = FALSE
  /\ probed = NoProbe
  /\ loaded = NoResult
  /\ NoCall
  /\ ReaderAbsent
  /\ WriterAbsent

NextListing == GetVolumeFiles

SpecListing == InitListing /\ [][NextListing]_vars

\* A FileReader constructed over one TIFF file of one plane.
InitBounds ==
  /\ fileZ = <<1>>
  /\ fileYX \in XYShapes
  /\ fileRaw = <<<<1, fileYX[1], fileYX[2]>>>>
  /\ fileDtype = <<"uint16">>
  /\ shapes = <<fileYX>>
  /\ dtypes = <<"uint16">>
  /\ volume_dtype = "uint16"
  /\ memory_limit \in MemoryLimits
  /\ input_path = [stem |-> InputStem, suffix |-> ".tif", zarr |-> FALSE,
                   entries |-> <<>>]
  /\ volume_files = <<0>>
  /\ volume_types = <<".tif">>
  /\ volume_name = InputStem
  /\ warned = <<>>
  /\ init_error = NoError
  /\ suffix = ".tif"
  /\ raw = <<>>
  /\ transpose = FALSE
  /\ probed = NoProbe
  /\ loaded = NoResult
  /\ NoCall
  /\ volume_sizes = <<EstimateSize(1)>>
  /\ volume_cumulative_z = <<1>>
  /\ volume_shape = <<1, fileYX[1], fileYX[2]>>
  /\ cache = <<>>
  /\ rpc = "ready"
  /\ pendingProbes = {}
  /\ pendingLoads = {}
  /\ req = <<0, 0>>
  /\ needed = {}
  /\ outcome = "none"
  /\ result = <<>>
  /\ cacheBefore = {}
  /\ WriterAbsent

NextBounds ==
  \/ ReadPositional
  \/ ReadKeywords

SpecBounds == InitBounds /\ [][NextBounds]_vars

\* FileReader(input_path, transpose) over a directory of files of one
\* suffix, each with its own shape and dtype: the files are listed and
\* one metadata probe per file is submitted.
InitInfo ==
  /\ \E n \in 1..MaxFiles :
       /\ fileRaw \in [1..n -> InfoShapes]
       /\ fileDtype \in [1..n -> Dtypes]
  /\ \E sfx \in InfoSuffixes :
       /\ input_path = [stem |-> InputStem, suffix |-> "", zarr |-> FALSE,
                        entries |-> [i \in 1..Len(fileRaw) |-> sfx]]
       /\ volume_types = [i \in 1..Len(fileRaw) |-> sfx]
  /\ volume_name = InputStem
  /\ warned = <<>>
  /\ volume_files = [i \in 1..Len(fileRaw) |-> i]
  /\ transpose \in BOOLEAN
  /\ fileZ = [i \in 1..Len(fileRaw) |-> Segment(i).shape[1]]
  /\ fileYX = <<>>
  /\ memory_limit \in MemoryLimits
  /\ init_error = NoError
  /\ suffix = ""
  /\ raw = <<>>
  /\ probed = NoProbe
  /\ loaded = NoResult
  /\ NoCall
  /\ NoRecords
  /\ volume_sizes = <<>>
  /\ volume_cumulative_z = <<>>
  /\ volume_shape = <<>>
  /\ cache = <<>>
  /\ rpc = "probing"
  /\ pendingProbes = 1..Len(fileRaw)
  /\ pendingLoads = {}
  /\ req = <<0, 0>>
  /\ needed = {}
  /\ outcome = "none"
  /\ result = <<>>
  /\ cacheBefore = {}
  /\ WriterAbsent

NextInfo ==
  \/ \E i \in 1..MaxFiles : ProbeComplete(i)
  \/ \E i \in 1..MaxFiles : ProbeFail(i)

SpecInfo == InitInfo /\ [][NextInfo]_vars

\* The converter's entry point, before main() constructs the reader over
\* the input path.
NextMain == \E limit \in MemoryLimits : MainReader(limit)

SpecMain == InitListing /\ [][NextMain]_vars

=============================================================================
